---- MODULE Spec2Model ----
(***************************************************************************)
(* Model of kodegen-bundler-autoconfig: the multi-format merge engine      *)
(* (src/config.rs), the client plugins (src/clients/*.rs) and the          *)
(* installer orchestrator (src/install.rs).                                *)
(*                                                                         *)
(* Document trees are records [t, s, m]: t is the node type, s the string  *)
(* of a string node, m the children of a mapping or array (array children  *)
(* are keyed "0", "1", ...).  A text (the content of a file, the argument  *)
(* and the result of merge) is a record [kind, style, val]: the tree it    *)
(* parses to and the way it is laid out, so that two texts are the same    *)
(* bytes exactly when the records are equal.                               *)
(***************************************************************************)
EXTENDS Naturals, Sequences, FiniteSets, TLC

VARIABLES platform,                        \* the build's target_os
          mFormat, mInput, mOut, mOut2, mpc, \* the merge engine on its own
          idx, client, results,              \* install_all_clients
          pathIdx, pc, content, updated,     \* install_client, process_config_file
          file, backup, dir,                 \* the candidate path being processed
          origFile, origBackup,              \* history: what the path held at first
          ops, attempted                     \* history: operations, paths tried

mvars == <<mFormat, mInput, mOut, mOut2, mpc>>

vars == <<platform, mFormat, mInput, mOut, mOut2, mpc,
          idx, client, results, pathIdx, pc, content, updated,
          file, backup, dir, origFile, origBackup, ops, attempted>>

ovars == <<idx, client, results, pathIdx, pc, content, updated,
           file, backup, dir, origFile, origBackup, ops, attempted>>

----------------------------------------------------------------------------
(* Format value model *)

Formats == {"Json", "Toml", "Yaml", "Plist"}

Platforms == {"macos", "other"}

EmptyMap == [k \in {} |-> 0]

Str(x) == [t |-> "str", s |-> x, m |-> EmptyMap]

Map(f) == [t |-> "map", s |-> "", m |-> f]

Arr(f) == [t |-> "arr", s |-> "", m |-> f]

Null == [t |-> "null", s |-> "", m |-> EmptyMap]

WithKey(f, k, v) == [x \in (DOMAIN f) \cup {k} |-> IF x = k THEN v ELSE f[x]]

HasKey(v, k) == v.t = "map" /\ k \in DOMAIN v.m

(* Texts *)
Doc(style, v) == [kind |-> "doc", style |-> style, val |-> v]

Blank(style) == [kind |-> "blank", style |-> style, val |-> Null]

Bad(style) == [kind |-> "bad", style |-> style, val |-> Null]

Braces == [kind |-> "braces", style |-> "literal", val |-> Null]

NoText == [kind |-> "none", style |-> "", val |-> Null]

(* Results *)
Ok(text) == [ok |-> TRUE, out |-> text, err |-> ""]

Err(e) == [ok |-> FALSE, out |-> NoText, err |-> e]

NoResult == [ok |-> FALSE, out |-> NoText, err |-> "none"]

OkVal(v) == [ok |-> TRUE, val |-> v, err |-> ""]

ErrVal(e) == [ok |-> FALSE, val |-> Null, err |-> e]

(* existing.trim().is_empty() *)
TrimIsEmpty(text) == text.kind = "blank"

----------------------------------------------------------------------------
(* Parsers and serializers.  A parser yields the tree of a well-formed     *)
(* text and fails on a malformed one; a serializer yields the one          *)
(* canonical layout of a tree, whatever layout the tree was read from.     *)

(* The two-byte text "{}": an empty object in JSON, an empty flow mapping  *)
(* in YAML and an empty dictionary in the OpenStep syntax plist::from_reader *)
(* falls back to; in TOML it is no document.                               *)
BracesParse(format) ==
    IF format = "Toml" THEN ErrVal("parse") ELSE OkVal(Map(EmptyMap))

Parse(format, text) ==
    CASE text.kind = "doc" -> OkVal(text.val)
      [] text.kind = "braces" -> BracesParse(format)
      [] OTHER -> ErrVal("parse")

(* serde_json::to_string_pretty: an empty object is written "{}" *)
to_string_pretty_json(v) ==
    IF v = Map(EmptyMap) THEN Braces ELSE Doc("pretty", v)

(* serde_json::to_string *)
to_string_json(v) ==
    IF v = Map(EmptyMap) THEN Braces ELSE Doc("compact", v)

(* toml::to_string_pretty, serde_yaml::to_string, plist::to_writer_xml *)
to_string_canonical(v) == Doc("pretty", v)

----------------------------------------------------------------------------
(* ConfigMerger::new: the pre-built templates *)

Args == Arr("0" :> Str("--stdio"))

KodegenEntryEnv ==
    Map("command" :> Str("kodegen") @@ "args" :> Args @@ "env" :> Map(EmptyMap))

KodegenEntryNoEnv ==
    Map("command" :> Str("kodegen") @@ "args" :> Args)

TemplateRoot(entry) == Map("mcpServers" :> Map("kodegen" :> entry))

kodegen_config_json == TemplateRoot(KodegenEntryEnv)

kodegen_config_toml == TemplateRoot(KodegenEntryNoEnv)

kodegen_config_yaml == TemplateRoot(KodegenEntryEnv)

kodegen_config_plist == TemplateRoot(KodegenEntryEnv)

----------------------------------------------------------------------------
(* ConfigMerger::merge_* *)

(* Fast-path test: the top level is a mapping whose "mcpServers" is a      *)
(* mapping that has the key "kodegen".                                     *)
AlreadyConfigured(config, section) ==
    /\ HasKey(config, section)
    /\ HasKey(config.m[section], "kodegen")

(* Slow path, first half: add the section as an empty mapping when the    *)
(* top level is a mapping that lacks it.                                   *)
EnsureSection(config, section) ==
    IF config.t = "map" /\ section \notin DOMAIN config.m
    THEN Map(WithKey(config.m, section, Map(EmptyMap)))
    ELSE config

(* Variant: the section is replaced by a fresh mapping that holds only the *)
(* new entry.                                                              *)
InsertEntry_fresh(config, section, entry) ==
    IF HasKey(config, section) /\ config.m[section].t = "map"
    THEN Map(WithKey(config.m, section, Map("kodegen" :> entry)))
    ELSE config

(* Slow path, second half: insert (or overwrite) the entry when the        *)
(* section is a mapping; otherwise nothing is inserted.                    *)
InsertEntry(config, section, entry) ==
    IF HasKey(config, section) /\ config.m[section].t = "map"
    THEN Map(WithKey(config.m, section,
                     Map(WithKey(config.m[section].m, "kodegen", entry))))
    ELSE config

(* Variant: existing.is_empty() in place of existing.trim().is_empty() *)
ParseOrEmpty_notrim(format, existing) ==
    IF existing = Blank("empty") THEN OkVal(Map(EmptyMap)) ELSE Parse(format, existing)

ParseOrEmpty(format, existing) ==
    IF TrimIsEmpty(existing) THEN OkVal(Map(EmptyMap)) ELSE Parse(format, existing)

(* Variant: the fast path returns the compact serialization of the parsed  *)
(* document in place of the input string.                                  *)
merge_json_reserialize(existing) ==
    LET parsed == ParseOrEmpty("Json", existing) IN
    IF ~parsed.ok THEN Err(parsed.err)
    ELSE IF AlreadyConfigured(parsed.val, "mcpServers")
         THEN Ok(to_string_json(parsed.val))
    ELSE Ok(to_string_pretty_json(
             InsertEntry(EnsureSection(parsed.val, "mcpServers"), "mcpServers",
                         kodegen_config_json.m["mcpServers"].m["kodegen"])))

merge_json(existing) ==
    LET parsed == ParseOrEmpty("Json", existing) IN
    IF ~parsed.ok THEN Err(parsed.err)
    ELSE IF AlreadyConfigured(parsed.val, "mcpServers") THEN Ok(existing)
    ELSE Ok(to_string_pretty_json(
             InsertEntry(EnsureSection(parsed.val, "mcpServers"), "mcpServers",
                         kodegen_config_json.m["mcpServers"].m["kodegen"])))

(* Variant: no fast path, the document is always serialized again *)
merge_toml_nofast(existing) ==
    LET parsed == ParseOrEmpty("Toml", existing) IN
    IF ~parsed.ok THEN Err(parsed.err)
    ELSE Ok(to_string_canonical(
             InsertEntry(EnsureSection(parsed.val, "mcpServers"), "mcpServers",
                         kodegen_config_toml.m["mcpServers"].m["kodegen"])))

merge_toml(existing) ==
    LET parsed == ParseOrEmpty("Toml", existing) IN
    IF ~parsed.ok THEN Err(parsed.err)
    ELSE IF AlreadyConfigured(parsed.val, "mcpServers") THEN Ok(existing)
    ELSE Ok(to_string_canonical(
             InsertEntry(EnsureSection(parsed.val, "mcpServers"), "mcpServers",
                         kodegen_config_toml.m["mcpServers"].m["kodegen"])))

merge_yaml(existing) ==
    LET parsed == ParseOrEmpty("Yaml", existing) IN
    IF ~parsed.ok THEN Err(parsed.err)
    ELSE IF AlreadyConfigured(parsed.val, "mcpServers") THEN Ok(existing)
    ELSE IF /\ HasKey(kodegen_config_yaml, "mcpServers")
            /\ HasKey(kodegen_config_yaml.m["mcpServers"], "kodegen")
         THEN Ok(to_string_canonical(
                  InsertEntry(EnsureSection(parsed.val, "mcpServers"), "mcpServers",
                              kodegen_config_yaml.m["mcpServers"].m["kodegen"])))
         ELSE Ok(to_string_canonical(EnsureSection(parsed.val, "mcpServers")))

merge_plist_macos(existing) ==
    LET parsed == ParseOrEmpty("Plist", existing) IN
    IF ~parsed.ok THEN Err(parsed.err)
    ELSE IF AlreadyConfigured(parsed.val, "mcpServers") THEN Ok(existing)
    ELSE Ok(to_string_canonical(
             InsertEntry(EnsureSection(parsed.val, "mcpServers"), "mcpServers",
                         kodegen_config_plist.m["mcpServers"].m["kodegen"])))

(* #[cfg(target_os = "macos")] selects one of the two merge_plist bodies *)
merge_plist(existing) ==
    IF platform = "macos" THEN merge_plist_macos(existing) ELSE Err("unsupported")

merge(existing, format) ==
    CASE format = "Json" -> merge_json(existing)
      [] format = "Toml" -> merge_toml(existing)
      [] format = "Yaml" -> merge_yaml(existing)
      [] format = "Plist" -> merge_plist(existing)

----------------------------------------------------------------------------
(* Input documents of the merge engine *)

Theme == Str("dark")

OtherEntry == Map("command" :> Str("x"))

TemplateEntry(format) ==
    IF format = "Toml" THEN kodegen_config_toml.m["mcpServers"].m["kodegen"]
    ELSE kodegen_config_json.m["mcpServers"].m["kodegen"]

CanonicalRoot(format) == Map("mcpServers" :> Map("kodegen" :> TemplateEntry(format)))

(* A "kodegen" entry found in a document: the template, an entry the user  *)
(* wrote, or a value that is no mapping.                                   *)
KodegenValues(format) == {TemplateEntry(format), OtherEntry, Str("x")}

ServerMaps(format) ==
    UNION { { f \in [D -> KodegenValues(format) \cup {OtherEntry}] :
                /\ ("kodegen" \in D => f["kodegen"] \in KodegenValues(format))
                /\ ("other" \in D => f["other"] = OtherEntry) }
            : D \in SUBSET {"kodegen", "other"} }

(* The value under "mcpServers": a mapping of entries, or no mapping *)
Sections(format) == {Str("x")} \cup { Map(f) : f \in ServerMaps(format) }

TopMaps(format) ==
    UNION { { f \in [D -> Sections(format) \cup {Theme}] :
                /\ ("mcpServers" \in D => f["mcpServers"] \in Sections(format))
                /\ ("theme" \in D => f["theme"] = Theme) }
            : D \in SUBSET {"mcpServers", "theme"} }

(* A top level that is no mapping: a TOML document is always a table *)
NonMapTops(format) ==
    CASE format = "Toml" -> {}
      [] format = "Yaml" -> {Null, Arr("0" :> Str("x"))}
      [] OTHER -> {Arr("0" :> Str("x"))}

Trees(format) == { Map(f) : f \in TopMaps(format) } \cup NonMapTops(format)

Styles == {"pretty", "compact", "user"}

(* In JSON the pretty and the compact layout of the empty object are both  *)
(* the text "{}".                                                          *)
ValidTexts(format) ==
    { Doc(st, v) : st \in Styles, v \in Trees(format) }
        \ (IF format = "Json"
           THEN {Doc("pretty", Map(EmptyMap)), Doc("compact", Map(EmptyMap))}
           ELSE {})

BlankTexts == {Blank("empty"), Blank("spaces")}

BadTexts == {Bad("plain"), Bad("mentions")}

Texts(format) == ValidTexts(format) \cup BlankTexts \cup BadTexts \cup {Braces}

----------------------------------------------------------------------------
(* Client plugins *)

(* ZedPlugin::inject_kodegen: the registration goes under                  *)
(* "context_servers" and has the shape {source, command, args}.            *)
ZedEntry ==
    Map("source" :> Str("custom") @@ "command" :> Str("kodegen") @@ "args" :> Args)

zed_inject_kodegen(config_content) ==
    LET parsed == ParseOrEmpty("Json", config_content) IN
    IF ~parsed.ok THEN Err(parsed.err)
    ELSE IF AlreadyConfigured(parsed.val, "context_servers") THEN Ok(config_content)
    ELSE Ok(to_string_pretty_json(
             InsertEntry(EnsureSection(parsed.val, "context_servers"),
                         "context_servers", ZedEntry)))

(* RooCodePlugin::inject_kodegen: the generic merge engine *)
roo_inject_kodegen(config_content, format) == merge(config_content, format)

(* client.inject_kodegen(config_content, client.config_format()) *)
inject_kodegen(c, config_content) ==
    IF c.kind = "zed" THEN zed_inject_kodegen(config_content)
    ELSE roo_inject_kodegen(config_content, c.format)

(* The plugins of src/clients: Zed and Roo Code, both JSON *)
SourcePlugins ==
    { [id |-> "zed", kind |-> "zed", format |-> "Json"],
      [id |-> "roo-code", kind |-> "merge", format |-> "Json"] }

(* Plugins of the other formats of ConfigFormat, which hand their document *)
(* to the merge engine as Roo Code does.                                   *)
OtherFormatPlugins ==
    { [id |-> "toml-client", kind |-> "merge", format |-> "Toml"],
      [id |-> "yaml-client", kind |-> "merge", format |-> "Yaml"],
      [id |-> "plist-client", kind |-> "merge", format |-> "Plist"] }

(* What clients::all_clients() may hold *)
PluginTypes == SourcePlugins \cup OtherFormatPlugins

(* Number of registered plugins *)
NumClients == 2

(* Largest number of candidate paths a plugin returns *)
MaxPaths == 2

Paths == 1..MaxPaths

(* config_paths().len(): Zed has two candidates on macOS and one on Linux, *)
(* Roo Code one; none when the base directories cannot be determined.      *)
PathCounts(p) ==
    CASE p.id = "zed" -> IF platform = "macos" THEN {0, 2} ELSE {0, 1}
      [] p.id = "roo-code" -> {0, 1}
      [] OTHER -> 0..MaxPaths

----------------------------------------------------------------------------
(* Files *)

Absent == NoText

Unseen == [kind |-> "unseen", style |-> "", val |-> Null]

(* The needle of config_content.contains("kodegen") *)
StringMentions(x) == x = "kodegen"

RECURSIVE TreeMentions(_)
TreeMentions(v) ==
    \/ StringMentions(v.s)
    \/ \E k \in DOMAIN v.m : StringMentions(k) \/ TreeMentions(v.m[k])

(* config_content.contains("kodegen") *)
Mentions(text) ==
    CASE text.kind = "doc" -> TreeMentions(text.val)
      [] text.kind = "bad" -> text.style = "mentions"
      [] OTHER -> FALSE

(* What a candidate config file may hold when the installer first reads it *)
FileTexts(format) ==
    { Blank("empty"), Bad("plain"), Bad("mentions"), Braces,
      Doc("user", Map("theme" :> Theme)),
      Doc("user", Map("mcpServers" :> Str("x"))),
      Doc("user", Map("mcpServers" :> Map("other" :> OtherEntry))),
      Doc("user", Map("context_servers" :> Str("x"))),
      Doc("user", Map("theme" :> Str("kodegen"))),
      Doc("user", CanonicalRoot(format)) }

(* A backup file left by an earlier run *)
OldBackup == Doc("compact", Map("theme" :> Theme))

(* What fs::write leaves when it fails: the file as it was, or the file    *)
(* truncated by File::create.                                              *)
AfterFailedWrite(before) == {before, Blank("empty")}

----------------------------------------------------------------------------
(* Installer orchestrator *)

NoClient == [id |-> "", kind |-> "", format |-> "", installed |-> FALSE, npaths |-> 0]

(* The result for the i-th registered plugin; client_id and client_name    *)
(* are the names of that plugin.                                           *)
InstallResult(i, success, message, config_path) ==
    [client |-> i, success |-> success, message |-> message,
     config_path |-> config_path]

(* The files of a candidate path before the installer has looked at it *)
PathUnseen ==
    /\ file = Unseen
    /\ backup = Unseen
    /\ dir = FALSE
    /\ origFile = Unseen
    /\ origBackup = Unseen
    /\ ops = <<>>

OrchestratorInit ==
    /\ idx = 1
    /\ client = NoClient
    /\ results = <<>>
    /\ pathIdx = 0
    /\ pc = "scan"
    /\ content = NoText
    /\ updated = NoText
    /\ PathUnseen
    /\ attempted = <<>>

OrchestratorIdle ==
    /\ idx = 0
    /\ client = NoClient
    /\ results = <<>>
    /\ pathIdx = 0
    /\ pc = "idle"
    /\ content = NoText
    /\ updated = NoText
    /\ PathUnseen
    /\ attempted = <<>>

(* Nothing is known yet of the next candidate path *)
ResetPath ==
    /\ file' = Unseen
    /\ backup' = Unseen
    /\ dir' = FALSE
    /\ origFile' = Unseen
    /\ origBackup' = Unseen
    /\ ops' = <<>>

Log(event) == ops' = Append(ops, event)

pathvars == <<file, backup, dir, origFile, origBackup>>

(* install_client returns a result; install_all_clients pushes it and      *)
(* moves to the next plugin.                                               *)
Return(success, message, config_path) ==
    /\ results' = Append(results, InstallResult(idx, success, message, config_path))
    /\ idx' = idx + 1
    /\ pc' = "scan"

(* Variant: the error leaves install_client and install_all_clients with   *)
(* the ? operator, and the run ends without the remaining results.         *)
FailPath_abort ==
    /\ pc' = "done"
    /\ UNCHANGED <<idx, results, pathIdx>>

(* Err(e) of process_config_file: logged, the next candidate is tried *)
FailPath ==
    /\ pathIdx' = pathIdx + 1
    /\ pc' = "paths"
    /\ UNCHANGED <<idx, results>>

(* Variant: the Ok arm does not return, the loop goes on to the next path  *)
SucceedPath_noreturn(status) ==
    /\ pathIdx' = pathIdx + 1
    /\ pc' = "paths"
    /\ UNCHANGED <<idx, results>>

(* Ok(status) of process_config_file: install_client returns at once *)
SucceedPath(status) ==
    /\ Return(TRUE, status, pathIdx)
    /\ UNCHANGED pathIdx

(* install_all_clients: the next plugin; install_client up to the          *)
(* installation check.                                                     *)
NextClient ==
    /\ pc = "scan"
    /\ idx <= NumClients
    /\ \E p \in PluginTypes, installed \in BOOLEAN :
        \E n \in PathCounts(p) :
          /\ client' = [id |-> p.id, kind |-> p.kind, format |-> p.format,
                        installed |-> installed, npaths |-> n]
          /\ IF installed
             THEN /\ pathIdx' = 1
                  /\ pc' = "paths"
                  /\ UNCHANGED <<idx, results>>
             ELSE /\ results' = Append(results,
                        InstallResult(idx, FALSE, "Not installed", 0))
                  /\ idx' = idx + 1
                  /\ pathIdx' = 0
                  /\ UNCHANGED pc
    /\ content' = NoText
    /\ updated' = NoText
    /\ ResetPath
    /\ attempted' = <<>>
    /\ UNCHANGED <<platform, mvars>>

(* install_all_clients: Ok(results) *)
Finish ==
    /\ pc = "scan"
    /\ idx > NumClients
    /\ pc' = "done"
    /\ UNCHANGED <<platform, mvars, idx, client, results, pathIdx, content, updated,
                   pathvars, ops, attempted>>

(* install_client: the loop over config_paths().  The next candidate path  *)
(* is one the installer has not looked at yet.                             *)
PathLoop ==
    /\ pc = "paths"
    /\ IF pathIdx <= client.npaths
       THEN /\ pc' = "read"
            /\ attempted' = Append(attempted, pathIdx)
            /\ content' = NoText
            /\ updated' = NoText
            /\ ResetPath
            /\ UNCHANGED <<idx, results>>
       ELSE /\ Return(FALSE, "Failed to configure", 0)
            /\ UNCHANGED <<content, updated, pathvars, ops, attempted>>
    /\ UNCHANGED <<platform, mvars, client, pathIdx>>

(* process_config_file: fs::read_to_string(path).  The path holds whatever *)
(* the machine holds there: a config file or none, a backup file of an     *)
(* earlier run or none, a parent directory or none.                        *)
ReadConfig ==
    /\ pc = "read"
    /\ \E f \in FileTexts(client.format) \cup {Absent}, b \in {Absent, OldBackup},
          d \in BOOLEAN :
         /\ f # Absent => d
         /\ d = FALSE => b = Absent
         /\ file' = f
         /\ origFile' = f
         /\ backup' = b
         /\ origBackup' = b
         /\ dir' = d
         /\ IF f = Absent
            THEN /\ Log("read_notfound")
                 /\ pc' = "new_inject"
                 /\ UNCHANGED <<idx, results, pathIdx, content>>
            ELSE \/ /\ Log("read")
                    /\ content' = f
                    /\ pc' = "check"
                    /\ UNCHANGED <<idx, results, pathIdx>>
                 \/ /\ Log("read_err")
                    /\ FailPath
                    /\ UNCHANGED content
    /\ UNCHANGED <<platform, mvars, client, updated, attempted>>

(* Variant: the structural test of the merge engine in place of the        *)
(* substring test.                                                         *)
CheckConfigured_structural ==
    /\ pc = "check"
    /\ IF content.kind = "doc" /\ AlreadyConfigured(content.val, "mcpServers")
       THEN /\ Log("already")
            /\ SucceedPath("Already configured")
       ELSE /\ pc' = "backup"
            /\ UNCHANGED <<idx, results, pathIdx, ops>>
    /\ UNCHANGED <<platform, mvars, client, content, updated, pathvars, attempted>>

(* process_config_file: config_content.contains("kodegen") *)
CheckConfigured ==
    /\ pc = "check"
    /\ IF Mentions(content)
       THEN /\ Log("already")
            /\ SucceedPath("Already configured")
       ELSE /\ pc' = "backup"
            /\ UNCHANGED <<idx, results, pathIdx, ops>>
    /\ UNCHANGED <<platform, mvars, client, content, updated, pathvars, attempted>>

(* Variant: the result of fs::copy is dropped, injection goes ahead *)
Backup_unchecked ==
    /\ pc = "backup"
    /\ \/ /\ backup' = file
          /\ Log("copy")
       \/ /\ backup' \in AfterFailedWrite(backup)
          /\ Log("copy_err")
    /\ pc' = "inject"
    /\ UNCHANGED <<idx, results, pathIdx>>
    /\ UNCHANGED <<platform, mvars, client, content, updated, file, dir,
                   origFile, origBackup, attempted>>

(* process_config_file: fs::copy(path, &backup_path) *)
Backup ==
    /\ pc = "backup"
    /\ \/ /\ backup' = file
          /\ Log("copy")
          /\ pc' = "inject"
          /\ UNCHANGED <<idx, results, pathIdx>>
       \/ /\ backup' \in AfterFailedWrite(backup)
          /\ Log("copy_err")
          /\ FailPath
    /\ UNCHANGED <<platform, mvars, client, content, updated, file, dir,
                   origFile, origBackup, attempted>>

(* process_config_file: client.inject_kodegen(&config_content, format) *)
Inject ==
    /\ pc = "inject"
    /\ LET r == inject_kodegen(client, content) IN
         IF r.ok
         THEN /\ updated' = r.out
              /\ Log("inject")
              /\ pc' = "write"
              /\ UNCHANGED <<idx, results, pathIdx>>
         ELSE /\ Log("inject_err")
              /\ FailPath
              /\ UNCHANGED updated
    /\ UNCHANGED <<platform, mvars, client, content, pathvars, attempted>>

(* process_config_file: fs::write(path, &updated_config) *)
Write ==
    /\ pc = "write"
    /\ \/ /\ file' = updated
          /\ Log("write")
          /\ SucceedPath("Configured successfully")
       \/ /\ file' \in AfterFailedWrite(file)
          /\ Log("write_err")
          /\ FailPath
    /\ UNCHANGED <<platform, mvars, client, content, updated, backup, dir,
                   origFile, origBackup, attempted>>

(* process_config_file, file not found: client.inject_kodegen("{}", format) *)
NewInject ==
    /\ pc = "new_inject"
    /\ LET r == inject_kodegen(client, Braces) IN
         IF r.ok
         THEN /\ updated' = r.out
              /\ Log("new_inject")
              /\ pc' = "new_mkdir"
              /\ UNCHANGED <<idx, results, pathIdx>>
         ELSE /\ Log("new_inject_err")
              /\ FailPath
              /\ UNCHANGED updated
    /\ UNCHANGED <<platform, mvars, client, content, pathvars, attempted>>

(* process_config_file, file not found: fs::create_dir_all(parent) *)
NewMkdir ==
    /\ pc = "new_mkdir"
    /\ \/ /\ dir' = TRUE
          /\ Log("mkdir")
          /\ pc' = "new_write"
          /\ UNCHANGED <<idx, results, pathIdx>>
       \/ /\ ~dir
          /\ Log("mkdir_err")
          /\ FailPath
          /\ UNCHANGED dir
    /\ UNCHANGED <<platform, mvars, client, content, updated, file, backup,
                   origFile, origBackup, attempted>>

(* process_config_file, file not found: fs::write(path, &new_config) *)
NewWrite ==
    /\ pc = "new_write"
    /\ \/ /\ file' = updated
          /\ Log("new_write")
          /\ SucceedPath("Created new config")
       \/ /\ file' \in {Absent, Blank("empty")}
          /\ Log("new_write_err")
          /\ FailPath
    /\ UNCHANGED <<platform, mvars, client, content, updated, backup, dir,
                   origFile, origBackup, attempted>>

MergeIdle ==
    /\ mFormat = "Json"
    /\ mInput = NoText
    /\ mOut = NoResult
    /\ mOut2 = NoResult
    /\ mpc = "idle"

Init ==
    /\ platform \in Platforms
    /\ MergeIdle
    /\ OrchestratorInit

Next ==
    \/ NextClient
    \/ Finish
    \/ PathLoop
    \/ ReadConfig
    \/ CheckConfigured
    \/ Backup
    \/ Inject
    \/ Write
    \/ NewInject
    \/ NewMkdir
    \/ NewWrite

Spec == Init /\ [][Next]_vars

----------------------------------------------------------------------------
(* The merge engine applied to an input, and to its own output *)

MergeInit ==
    /\ platform \in Platforms
    /\ mFormat \in Formats
    /\ mInput \in Texts(mFormat)
    /\ mOut = NoResult
    /\ mOut2 = NoResult
    /\ mpc = "start"
    /\ OrchestratorIdle

MergeOnce ==
    /\ mpc = "start"
    /\ mOut' = merge(mInput, mFormat)
    /\ mpc' = "merged"
    /\ UNCHANGED <<platform, mFormat, mInput, mOut2, ovars>>

MergeAgain ==
    /\ mpc = "merged"
    /\ mOut.ok
    /\ mOut2' = merge(mOut.out, mFormat)
    /\ mpc' = "remerged"
    /\ UNCHANGED <<platform, mFormat, mInput, mOut, ovars>>

MergeNext == MergeOnce \/ MergeAgain

SpecMerge == MergeInit /\ [][MergeNext]_vars

----------------------------------------------------------------------------
(* The Zed plugin's injection applied to an input, and to its own output *)

(* A "kodegen" entry found under "context_servers": Zed's own shape, an    *)
(* entry the user wrote, or a value that is no mapping.                    *)
ZedKodegenValues == {ZedEntry, OtherEntry, Str("x")}

ZedServerMaps ==
    UNION { { f \in [D -> ZedKodegenValues \cup {OtherEntry}] :
                /\ ("kodegen" \in D => f["kodegen"] \in ZedKodegenValues)
                /\ ("other" \in D => f["other"] = OtherEntry) }
            : D \in SUBSET {"kodegen", "other"} }

(* The value under "context_servers": a mapping of entries, or no mapping *)
ZedSections == {Str("x")} \cup { Map(f) : f \in ZedServerMaps }

ZedTopMaps ==
    UNION { { f \in [D -> ZedSections \cup {Theme}] :
                /\ ("context_servers" \in D => f["context_servers"] \in ZedSections)
                /\ ("theme" \in D => f["theme"] = Theme) }
            : D \in SUBSET {"context_servers", "theme"} }

ZedTrees == { Map(f) : f \in ZedTopMaps } \cup NonMapTops("Json")

ZedValidTexts ==
    { Doc(st, v) : st \in Styles, v \in ZedTrees }
        \ {Doc("pretty", Map(EmptyMap)), Doc("compact", Map(EmptyMap))}

(* What settings.json may hold *)
ZedTexts == ZedValidTexts \cup BlankTexts \cup BadTexts \cup {Braces}

ZedInit ==
    /\ platform \in Platforms
    /\ mFormat = "Json"
    /\ mInput \in ZedTexts
    /\ mOut = NoResult
    /\ mOut2 = NoResult
    /\ mpc = "start"
    /\ OrchestratorIdle

ZedInject ==
    /\ mpc = "start"
    /\ mOut' = zed_inject_kodegen(mInput)
    /\ mpc' = "injected"
    /\ UNCHANGED <<platform, mFormat, mInput, mOut2, ovars>>

ZedInjectAgain ==
    /\ mpc = "injected"
    /\ mOut.ok
    /\ mOut2' = zed_inject_kodegen(mOut.out)
    /\ mpc' = "reinjected"
    /\ UNCHANGED <<platform, mFormat, mInput, mOut, ovars>>

ZedNext == ZedInject \/ ZedInjectAgain

SpecZed == ZedInit /\ [][ZedNext]_vars

----------------------------------------------------------------------------
(* Properties of the merge engine (SpecMerge) *)

(* Whether this build's merge parses documents of the format at all *)
Supported(format) == format # "Plist" \/ platform = "macos"

(* The document a returned text holds *)
OutTree == ParseOrEmpty(mFormat, mOut.out).val

InTree == ParseOrEmpty(mFormat, mInput).val

(* C1: idempotence.  Whenever merge(doc) returns a text, merge of that     *)
(* text returns the very same text: merge(merge(doc)) = merge(doc).        *)
C1_Idempotent == mpc = "remerged" => mOut2 = mOut

(* C1 witness: a document whose "mcpServers" is no mapping, in a layout of *)
(* the user's, has been merged twice.                                      *)
C1_Witness ==
    /\ mpc = "remerged"
    /\ mInput.kind = "doc" /\ mInput.style = "user"
    /\ HasKey(mInput.val, "mcpServers")
    /\ mInput.val.m["mcpServers"].t # "map"
    /\ mOut2.ok

(* C2: post-merge invariant.  Whenever merge returns Ok, the returned      *)
(* document has "mcpServers" with an entry "kodegen" whose value is the    *)
(* format's canonical template, on the fast path and on the slow path.     *)
C2_PostMerge ==
    (mpc = "merged" /\ mOut.ok) =>
        /\ AlreadyConfigured(OutTree, "mcpServers")
        /\ OutTree.m["mcpServers"].m["kodegen"] = TemplateEntry(mFormat)

(* C3: non-destructiveness.  Every top-level key other than "mcpServers"   *)
(* and every entry of "mcpServers" other than "kodegen" that the input has *)
(* is in the returned document with an equal value.                        *)
C3_NonDestructive ==
    (mpc = "merged" /\ mOut.ok /\ InTree.t = "map") =>
        /\ OutTree.t = "map"
        /\ \A k \in (DOMAIN InTree.m) \ {"mcpServers"} :
              k \in DOMAIN OutTree.m /\ OutTree.m[k] = InTree.m[k]
        /\ (HasKey(InTree, "mcpServers") /\ InTree.m["mcpServers"].t = "map") =>
              /\ HasKey(OutTree, "mcpServers")
              /\ OutTree.m["mcpServers"].t = "map"
              /\ \A e \in (DOMAIN InTree.m["mcpServers"].m) \ {"kodegen"} :
                    /\ e \in DOMAIN OutTree.m["mcpServers"].m
                    /\ OutTree.m["mcpServers"].m[e] = InTree.m["mcpServers"].m[e]

(* C3 witness: a document with an unrelated key and an "other" server got  *)
(* the "kodegen" entry added on the slow path.                             *)
C3_Witness ==
    /\ mpc = "merged" /\ mOut.ok
    /\ HasKey(InTree, "theme")
    /\ HasKey(InTree, "mcpServers")
    /\ HasKey(InTree.m["mcpServers"], "other")
    /\ ~HasKey(InTree.m["mcpServers"], "kodegen")
    /\ AlreadyConfigured(OutTree, "mcpServers")

C5_Original ==
    (mpc = "merged" /\ TrimIsEmpty(mInput)) =>
        mOut.ok /\ OutTree = CanonicalRoot(mFormat)

(* C5 amended: merge of an empty or whitespace-only string returns Ok with *)
(* exactly the one canonical entry for every format the build supports     *)
(* (Json, Toml, Yaml; Plist on macOS), and the unsupported-format error    *)
(* for Plist elsewhere.                                                    *)
C5_EmptyInput ==
    (mpc = "merged" /\ TrimIsEmpty(mInput)) =>
        IF Supported(mFormat)
        THEN mOut.ok /\ OutTree = CanonicalRoot(mFormat)
        ELSE mOut = Err("unsupported")

(* C5 witness: a whitespace-only TOML input has been merged *)
C5_Witness ==
    /\ mpc = "merged"
    /\ mInput = Blank("spaces") /\ mFormat = "Toml"
    /\ mOut.ok

TextFormats == {"Json", "Toml", "Yaml"}

(* The entry merge puts into a document that had none *)
InsertedEntry(text, format) ==
    ParseOrEmpty(format, merge(text, format).out).val.m["mcpServers"].m["kodegen"]

(* C6: cross-format equivalence.  For the same logical input, the entry    *)
(* merge inserts is the same in JSON, TOML and YAML: command, args, env.   *)
C6_CrossFormat ==
    (/\ mpc = "merged" /\ mOut.ok
     /\ mFormat \in TextFormats
     /\ mInput.kind \in {"doc", "blank"}
     /\ InTree.t = "map"
     /\ ~HasKey(InTree, "mcpServers")) =>
        \A g \in TextFormats :
            /\ InsertedEntry(mInput, g) = InsertedEntry(mInput, mFormat)
            /\ DOMAIN InsertedEntry(mInput, g).m = {"command", "args", "env"}

----------------------------------------------------------------------------
(* Properties of the installer orchestrator (Spec) *)

Has(seq, e) == \E i \in 1..Len(seq) : seq[i] = e

Last(seq) == seq[Len(seq)]

ErrorEvents ==
    {"read_err", "copy_err", "inject_err", "write_err",
     "new_inject_err", "mkdir_err", "new_write_err"}

SuccessEvents == {"already", "write", "new_write"}

(* The candidate path just processed has failed: the next one is due, or  *)
(* it was the last one and the plugin's result is the failure.             *)
PathReportedFailed ==
    /\ pathIdx = Last(attempted) + 1
    /\ \/ pc = "paths" /\ Len(results) = idx - 1
       \/ /\ pc \in {"scan", "done"}
          /\ pathIdx > client.npaths
          /\ results # <<>>
          /\ ~Last(results).success
          /\ Last(results).message = "Failed to configure"

(* C7: backup before write.  For an existing file that is not already      *)
(* configured, every write to the config path comes after the completed    *)
(* copy to the backup path, which then holds the original content; if the  *)
(* copy fails, injection is not run, the config file is not written and    *)
(* the path is reported as failed so that the next candidate is tried.     *)
C7_BackupBeforeWrite ==
    /\ \A j \in 1..Len(ops) :
          ops[j] \in {"inject", "inject_err", "write", "write_err"} =>
              \E i \in 1..(j - 1) : ops[i] = "copy"
    /\ pc \in {"inject", "write"} => (backup = origFile /\ file = origFile)
    /\ (Has(ops, "write") \/ Has(ops, "write_err")) => backup = origFile
    /\ Has(ops, "copy_err") =>
          /\ Last(ops) = "copy_err"
          /\ file = origFile
          /\ PathReportedFailed

(* C7 witness: an existing file has been rewritten and its backup holds    *)
(* what the file held before.                                              *)
C7_Witness ==
    /\ Has(ops, "write")
    /\ file # origFile
    /\ backup = origFile
    /\ origBackup = OldBackup

(* C8: malformed input.  Injection into an existing malformed file fails   *)
(* with a parse error, the path is reported as failed and the next         *)
(* candidate is tried, and nothing has been written: the config file is    *)
(* as it was and no backup file has been created or modified.              *)
C8_MalformedWritesNothing ==
    origFile.kind = "bad" =>
        /\ ~Has(ops, "inject")
        /\ Has(ops, "inject_err") =>
              /\ PathReportedFailed
              /\ file = origFile
              /\ backup = origBackup

Returned == pc \in {"scan", "done"} /\ results # <<>> /\ client # NoClient

(* C10: candidate paths are tried one at a time in the order of            *)
(* config_paths, up to the first that succeeds: the result is then success *)
(* with that path, and no later path is tried.  The result is the failure  *)
(* "Failed to configure" without a path exactly when every candidate       *)
(* failed, or there is none.                                               *)
C10_PathsInOrder ==
    /\ attempted = [i \in 1..Len(attempted) |-> i]
    /\ Len(attempted) <= client.npaths
    /\ (pc = "paths" /\ pathIdx > 1) => Last(ops) \in ErrorEvents
    /\ (Returned /\ client.installed) =>
          LET r == Last(results) IN
          IF attempted # <<>> /\ Last(ops) \in SuccessEvents
          THEN /\ r.success
               /\ r.config_path = Last(attempted)
               /\ r.message \in {"Already configured", "Configured successfully",
                                 "Created new config"}
          ELSE /\ ~r.success
               /\ r.message = "Failed to configure"
               /\ r.config_path = 0
               /\ Len(attempted) = client.npaths
               /\ attempted # <<>> => Last(ops) \in ErrorEvents

(* C10 witness: the first of two candidate paths succeeded and the second  *)
(* was never tried.                                                        *)
C10_Witness ==
    /\ Returned
    /\ client.npaths = 2
    /\ attempted = <<1>>
    /\ Last(results).success
    /\ Last(results).config_path = 1

(* The candidate path was found missing and its processing has ended       *)
(* without an I/O error.                                                   *)
MissingFileProcessed ==
    /\ Has(ops, "read_notfound")
    /\ pc \notin {"new_inject", "new_mkdir", "new_write"}
    /\ ~Has(ops, "mkdir_err")
    /\ ~Has(ops, "new_write_err")

(* C11: missing-file creation.  For every plugin, whatever its format,     *)
(* when the candidate file does not exist the new document is what the     *)
(* plugin's injection makes of an empty document; the parent directory is  *)
(* created, the document is written to the path, the result is the success *)
(* "Created new config", and no backup file is created.                    *)
C11_MissingFileCreated ==
    (MissingFileProcessed /\ inject_kodegen(client, Blank("empty")).ok) =>
        /\ ops = <<"read_notfound", "new_inject", "mkdir", "new_write">>
        /\ file = inject_kodegen(client, Blank("empty")).out
        /\ dir
        /\ backup = origBackup
        /\ Returned
        /\ Last(results).success
        /\ Last(results).message = "Created new config"
        /\ Last(results).config_path = Last(attempted)

(* C12: already-configured short circuit.  When the text read from an      *)
(* existing file contains "kodegen" anywhere, valid document or not,       *)
(* registered or not, the result is the success "Already configured" and   *)
(* nothing else is done: no copy, no injection, no write; the config file  *)
(* and any backup file are as they were.                                   *)
C12_AlreadyConfigured ==
    (/\ ops # <<>> /\ ops[1] = "read"
     /\ pc # "check"
     /\ Mentions(origFile)) =>
        /\ ops = <<"read", "already">>
        /\ file = origFile
        /\ backup = origBackup
        /\ Returned
        /\ Last(results).success
        /\ Last(results).message = "Already configured"
        /\ Last(results).config_path = Last(attempted)

(* C12 witness: a valid document that names "kodegen" in an unrelated      *)
(* field, with no registration in it, next to a backup of an earlier run.  *)
C12_Witness ==
    /\ origFile = Doc("user", Map("theme" :> Str("kodegen")))
    /\ origBackup = OldBackup
    /\ Last(ops) = "already"
    /\ Returned
    /\ Last(results).message = "Already configured"

----------------------------------------------------------------------------
(* Properties of the Zed plugin's injection (SpecZed) *)

(* A valid JSON document went in and a text came back *)
ZedInjected ==
    /\ mpc \in {"injected", "reinjected"}
    /\ mInput.kind \in {"doc", "braces"}
    /\ mOut.ok

(* inject(inject(doc)) = inject(doc) *)
ZedIdempotent == (ZedInjected /\ mpc = "reinjected") => mOut2 = mOut

(* doc comes back unchanged when context_servers.kodegen exists *)
ZedFastPathPure ==
    (ZedInjected /\ AlreadyConfigured(InTree, "context_servers")) => mOut = Ok(mInput)

(* Every other top-level key and every other entry of "context_servers"    *)
(* is in the returned document with an equal value.                        *)
ZedNonDestructive ==
    (ZedInjected /\ InTree.t = "map") =>
        /\ OutTree.t = "map"
        /\ \A k \in (DOMAIN InTree.m) \ {"context_servers"} :
              k \in DOMAIN OutTree.m /\ OutTree.m[k] = InTree.m[k]
        /\ (HasKey(InTree, "context_servers") /\ InTree.m["context_servers"].t = "map") =>
              /\ HasKey(OutTree, "context_servers")
              /\ OutTree.m["context_servers"].t = "map"
              /\ \A e \in (DOMAIN InTree.m["context_servers"].m) \ {"kodegen"} :
                    /\ e \in DOMAIN OutTree.m["context_servers"].m
                    /\ OutTree.m["context_servers"].m[e] = InTree.m["context_servers"].m[e]

(* After a successful call "context_servers" holds "kodegen"; an entry the *)
(* call added has Zed's shape {source, command, args}.                     *)
ZedRegistered ==
    ZedInjected =>
        /\ AlreadyConfigured(OutTree, "context_servers")
        /\ (~AlreadyConfigured(InTree, "context_servers") =>
               OutTree.m["context_servers"].m["kodegen"] = ZedEntry)

(* C13: the Zed plugin's injection keeps the invariant of the generic      *)
(* merge.  For every valid JSON document it is idempotent, returns the     *)
(* document unchanged when context_servers.kodegen exists, leaves every    *)
(* other top-level key and every other context_servers entry unchanged,    *)
(* and after a successful call context_servers contains kodegen with the   *)
(* shape {source: custom, command: kodegen, args: [--stdio]}.              *)
C13_ZedInvariant ==
    /\ ZedIdempotent
    /\ ZedFastPathPure
    /\ ZedNonDestructive
    /\ ZedRegistered

----------------------------------------------------------------------------
(* The installer run a second time for a plugin it has configured *)

(* What one run of process_config_file that ends in "Configured            *)
(* successfully" does                                                      *)
ConfiguredOps == <<"read", "copy", "inject", "write">>

(* install_client is called again for the plugin whose first candidate     *)
(* path it has just configured, and nothing else has touched the files in  *)
(* between: the plugin is still installed, the first candidate path is the *)
(* same, and fs::read_to_string returns what the first run wrote.  The     *)
(* second result takes the place of the first.                             *)
Rerun ==
    /\ pc = "scan"
    /\ results # <<>>
    /\ Last(results) = InstallResult(idx - 1, TRUE, "Configured successfully", 1)
    /\ ops = ConfiguredOps
    /\ idx' = idx - 1
    /\ results' = SubSeq(results, 1, Len(results) - 1)
    /\ pathIdx' = 1
    /\ content' = file
    /\ updated' = NoText
    /\ ops' = ops \o <<"rerun", "read">>
    /\ pc' = "check"
    /\ UNCHANGED <<platform, mvars, client, pathvars, attempted>>

NextRerun == Next \/ Rerun

SpecRerun == Init /\ [][NextRerun]_vars

(* The second run has returned *)
RerunReturned == Has(ops, "rerun") /\ pc \in {"scan", "done"}

(* C14: orchestrator-level idempotence and backup preservation.  After     *)
(* install_client has returned "Configured successfully" for a path, a     *)
(* second run with no outside change to the files touches no file: the     *)
(* config file stays what the first run wrote and the backup stays the     *)
(* content the config file had before the first run; and the second run    *)
(* reports the success "Already configured".                               *)
C14_RerunAlreadyConfigured ==
    Has(ops, "rerun") =>
        /\ file = inject_kodegen(client, origFile).out
        /\ backup = origFile
        /\ RerunReturned =>
              /\ ops = ConfiguredOps \o <<"rerun", "read", "already">>
              /\ Last(results) = InstallResult(idx - 1, TRUE, "Already configured", 1)

====
